---- MODULE Spec2Model ----
(***************************************************************************)
(* Job orchestration of process-api.                                       *)
(*                                                                         *)
(* The repository holds two job shapes:                                    *)
(*   - package src/jobs (jobs.go, handlers.go): the REST handlers and the  *)
(*     AWSBatchJob they drive.  Specification Spec.                        *)
(*   - package src/api/jobs (active_jobs.go): the ActiveJobs registry and  *)
(*     the AWSBatchJob with the guarded NewStatusUpdate, Kill and Close.   *)
(*     Specification SpecApi.                                              *)
(* Start-up (src/handlers/config.go) is specification SpecBoot.            *)
(*                                                                         *)
(* An action is one stretch of code between two blocking calls (a provider *)
(* call, a sleep, a channel operation, a mutex): the goroutines interleave *)
(* at those points.                                                        *)
(***************************************************************************)
EXTENDS Integers, Sequences, FiniteSets, TLC

\* Bounds of the model.
NJobs == 1
NApiJobs == 2
MaxClock == 1
MaxLog == 2
NSnapshotJobs == 2
MaxTime == 2
MaxMetaLog == 3
MaxMetaWriters == 1
NCacheJobs == 3
MaxJobSize == 4
CacheSize == 10
MaxReads == 2
NListJobs == 3

\* The ids uuid.New() mints.
Jobs == 1..NJobs

\* The ids a request can name: 0 is an id no job has.
Ids == 0..NJobs

\* The job ids of package src/api/jobs.
ApiJobs == 1..NApiJobs

\* OGCStatusCodes, src/jobs/jobs.go:57-63
ACCEPTED == "accepted"
RUNNING == "running"
SUCCESSFUL == "successful"
FAILED == "failed"
DISMISSED == "dismissed"

Terminal == {SUCCESSFUL, FAILED, DISMISSED}

\* The zero value of a Go string: the status of a job no Create has touched.
NoStatus == ""

\* What the batch provider reports for a job (JobMonitor's status).
ProviderStatuses == {"SUBMITTED", "RUNNING", "SUCCEEDED", "FAILED"}

VARIABLES
    \* ---- package src/jobs ----
    JobsCache,   \* rh.JobsCache.Jobs: the ids of the cached jobs
    job,         \* the fields of each job value
    proc,        \* the process each job executes: JobControlOptions[0], Outputs
    exec,        \* where the Execution handler of each job stands
    resp,        \* the response of the Execution handler of each job
    monitor,     \* where the goroutine `go j.Run()` of each job stands
    oldStatus,   \* Run's local variable oldStatus
    provider,    \* the provider's status of each submitted job
    storage,     \* the job ids with a results object in the object store
    last,        \* the last response of a status, results or dismiss handler
    observed,    \* the jobs the status handler has reported successful
    killed,      \* the jobs on which a Kill has returned nil
    now,         \* the wall clock time.Now() reads
    \* ---- package src/api/jobs ----
    ActiveJobs,  \* ac.Jobs: the ids of the jobs in the registry
    mu,          \* ac.mu: whether the registry mutex is held
    ajob,        \* the fields of each job value
    DB,          \* j.DB: the job record and the flushed logs of each job
    DoneChan,    \* j.DoneChan: the jobs sent and not yet received
    th,          \* where each goroutine that can run Kill or Close stands
    todo,        \* the jobs KillAll's range over ac.Jobs has still to visit
    recv,        \* the job the DoneChan receiver has received and not yet removed
    killAll,     \* what the last KillAll returned, and the Kill errors of that call
    \* ---- package src/handlers ----
    o,           \* the flag -o: start from a clean cache, overwrite the snapshot
    snapshot,    \* the file .data/snapshot.gob
    pluginsOk,   \* whether pr.LoadProcesses(pluginsDir) returns no error
    jc,          \* jc.Jobs: the status of each job of the cache NewRESTHander builds
    load,        \* the calls of jc.LoadCacheFromFile() and the error of the last one
    startup,     \* where start-up stands, and the line it logged
    \* ---- ListJobs, package src/jobs ----
    stored,      \* ac.Jobs as ListJobs finds it: the fields of the stored jobs
    jobsList,    \* what the last call of ListJobs returned
    \* ---- WriteMetaData, package src/api/jobs ----
    metaData,    \* the jobs whose metadata utils.WriteToS3 was given
    routine,     \* the position of each job's goroutine running WriteMetaData
    \* ---- JobsCache with its size accounting ----
    jcache,      \* Jobs (status, last-update and size of each), CurrentSizeBytes,
                 \* and the jobs the last Add evicted
    \* ---- concurrent calls of NewStatusUpdate, package src/api/jobs ----
    call,        \* where each task's call of NewStatusUpdate stands
    reads,       \* what a reader task's calls of CurrentStatus returned, in order
    \* ---- calls of NewStatusUpdate by any caller, package src/api/jobs ----
    lastCall,    \* the job and the arguments of the last call
    \* ---- access to the map rh.JobsCache.Jobs, package src/jobs ----
    cmu,         \* the task that holds the cache mutex, "" when it is free
    adder,       \* Execution's call of rh.JobsCache.Add: its position and job
    look         \* the handler that looks a job up: its position in the range

legacyVars == <<JobsCache, job, proc, exec, resp, monitor, oldStatus, provider,
                storage, last, observed, killed, now>>

apiVars == <<ActiveJobs, mu, ajob, DB, DoneChan, th, todo, recv, killAll>>

bootVars == <<o, snapshot, pluginsOk, jc, load, startup>>

listVars == <<stored, jobsList>>

metaVars == <<metaData, routine>>

cacheVars == <<jcache>>

raceVars == <<call, reads>>

statusVars == <<lastCall>>

lookVars == <<cmu, adder, look>>

\* The variables of the specifications of single functions.
auxVars == <<bootVars, listVars, metaVars, cacheVars, raceVars, statusVars, lookVars>>

vars == <<legacyVars, apiVars, auxVars>>

\* ------------------------------------------------------------------------
\* Values

\* A job value before Execution has filled it.
NoJob == [Status |-> NoStatus, UpdateTime |-> 0, AWSBatchID |-> "",
          APILogs |-> <<>>, ContainerLogs |-> <<>>, CtxCancelled |-> FALSE]

NoProc == [jobType |-> "", outputs |-> FALSE]

NoResp == [code |-> 0, body |-> ""]

NoLast == [h |-> "", id |-> 0, code |-> 0, body |-> "", kills |-> 0, err |-> FALSE]

\* time.Now(): every reading is later than the one before, until the clock
\* stands still at MaxClock.
Ticks == {IF now < MaxClock THEN now + 1 ELSE now}

\* ------------------------------------------------------------------------
\* AWSBatchJob, src/jobs/jobs.go

\* func (j *AWSBatchJob) NewMessage(m string)
NewMessage(j, m) == [j EXCEPT !.APILogs = Append(@, m)]

\* func (j *AWSBatchJob) NewStatusUpdate(s string)
NewStatusUpdate(j, s, t) == [j EXCEPT !.Status = s, !.UpdateTime = t]

\* j.CtxCancel()
CtxCancel(j) == [j EXCEPT !.CtxCancelled = TRUE]

\* HandleError without its NewStatusUpdate(FAILED): the error is only logged.
HandleErrorLogOnly(j, m, t) == CtxCancel(NewMessage(j, m))

\* func (j *AWSBatchJob) HandleError(m string)
HandleError(j, m, t) == CtxCancel(NewStatusUpdate(NewMessage(j, m), FAILED, t))

\* Create without the assignment of the provider's id.
CreateNoProviderID(j, ctrlOk, submitOk, t) ==
    IF ~ctrlOk THEN [job |-> HandleError(j, "controller error", t), err |-> TRUE]
    ELSE IF ~submitOk THEN [job |-> HandleError(j, "submit error", t), err |-> TRUE]
    ELSE [job |-> NewStatusUpdate(j, ACCEPTED, t), err |-> FALSE]

\* Create with the `return err` after the failed JobCreate missing: the job
\* goes on to accepted.
CreateNoReturn(j, ctrlOk, submitOk, t) ==
    IF ~ctrlOk THEN [job |-> HandleError(j, "controller error", t), err |-> TRUE]
    ELSE LET e == IF submitOk THEN j ELSE HandleError(j, "submit error", t) IN
         [job |-> NewStatusUpdate([e EXCEPT !.AWSBatchID = "batch-id"], ACCEPTED, t),
          err |-> FALSE]

\* func (j *AWSBatchJob) Create() error, from the return of JobCreate on.
\* ctrlOk: NewAWSBatchController returned no error; submitOk: JobCreate did.
\* Execution always passes a non-nil Cmd, so the j.Cmd == nil branch is not
\* taken.
Create(j, ctrlOk, submitOk, t) ==
    IF ~ctrlOk THEN [job |-> HandleError(j, "controller error", t), err |-> TRUE]
    ELSE IF ~submitOk THEN [job |-> HandleError(j, "submit error", t), err |-> TRUE]
    ELSE [job |-> NewStatusUpdate([j EXCEPT !.AWSBatchID = "batch-id"], ACCEPTED, t),
          err |-> FALSE]

\* Kill without its NewStatusUpdate(DISMISSED).
KillNoStatus(j, ctrlOk, killOk, t) ==
    IF ~ctrlOk THEN [job |-> HandleError(j, "controller error", t), err |-> TRUE]
    ELSE IF ~killOk THEN [job |-> j, err |-> TRUE]
    ELSE [job |-> CtxCancel(j), err |-> FALSE]

\* func (j *AWSBatchJob) Kill() error
Kill(j, ctrlOk, killOk, t) ==
    IF ~ctrlOk THEN [job |-> HandleError(j, "controller error", t), err |-> TRUE]
    ELSE IF ~killOk THEN [job |-> j, err |-> TRUE]
    ELSE [job |-> CtxCancel(NewStatusUpdate(j, DISMISSED, t)), err |-> FALSE]

\* Run, up to its first JobMonitor call.
RunEnter(j, ctrlOk, t) ==
    IF ~ctrlOk THEN [job |-> HandleError(j, "controller error", t), returned |-> TRUE]
    ELSE IF j.AWSBatchID = "" THEN [job |-> HandleError(j, "AWSBatchID empty", t), returned |-> TRUE]
    ELSE [job |-> j, returned |-> FALSE]

\* One turn of Run's loop, from the return of JobMonitor to the sleep.
\* monOk: JobMonitor returned no error; status: the status it returned.
RunObserve(j, old, monOk, status, t) ==
    IF ~monOk THEN [job |-> HandleError(j, "JobMonitor error", t), returned |-> TRUE]
    ELSE LET jl == [j EXCEPT !.ContainerLogs = <<"logStream">>] IN
         IF status = old THEN [job |-> jl, returned |-> FALSE]
         ELSE CASE status = "ACCEPTED" ->
                     [job |-> NewStatusUpdate(jl, ACCEPTED, t), returned |-> FALSE]
                [] status = "RUNNING" ->
                     [job |-> NewStatusUpdate(jl, RUNNING, t), returned |-> FALSE]
                [] status = "SUCCEEDED" ->
                     [job |-> CtxCancel(NewStatusUpdate(jl, SUCCESSFUL, t)), returned |-> TRUE]
                [] status = "DISMISSED" ->
                     [job |-> CtxCancel(NewStatusUpdate(jl, DISMISSED, t)), returned |-> TRUE]
                [] status = "FAILED" ->
                     [job |-> CtxCancel(NewStatusUpdate(jl, FAILED, t)), returned |-> TRUE]
                [] OTHER -> [job |-> jl, returned |-> FALSE]

\* ------------------------------------------------------------------------
\* RESTHandler, src/jobs/handlers.go

\* rh.JobsCache.Add(j)
CacheAdd(cache, id) == cache \cup {id}

\* uuid.New(): an id no job has had.
FreshID(id) == exec[id] = "none" /\ \A k \in Jobs : k < id => exec[k] # "none"

\* Execution, from the request to Create's call of JobCreate: the job value
\* is built, added to the cache, and Create has made its context.
ExecutionBegin(id, jobType, outputs) ==
    /\ FreshID(id)
    /\ JobsCache' = CacheAdd(JobsCache, id)
    /\ job' = [job EXCEPT ![id] = NoJob]
    /\ proc' = [proc EXCEPT ![id] = [jobType |-> jobType, outputs |-> outputs]]
    /\ exec' = [exec EXCEPT ![id] = "create"]
    /\ UNCHANGED <<apiVars, auxVars>>
    /\ UNCHANGED <<resp, monitor, oldStatus, provider, storage, last, observed, killed, now>>

\* Execution, from the return of JobCreate to the dispatch on the job type:
\* 500 when Create failed, 201 and `go j.Run()` for async-execute, and the
\* call of j.Run() for sync-execute.
ExecutionCreate(id, ctrlOk, submitOk, t) ==
    /\ exec[id] = "create"
    /\ (ctrlOk /\ submitOk) \/ Len(job[id].APILogs) < MaxLog
    /\ LET r == Create(job[id], ctrlOk, submitOk, t) IN
       /\ job' = [job EXCEPT ![id] = r.job]
       /\ now' = t
       /\ provider' = [provider EXCEPT ![id] = IF r.err THEN @ ELSE "SUBMITTED"]
       /\ IF r.err
          THEN /\ resp' = [resp EXCEPT ![id] = [code |-> 500, body |-> "submission error"]]
               /\ exec' = [exec EXCEPT ![id] = "done"]
               /\ UNCHANGED monitor
          ELSE IF proc[id].jobType = "sync-execute"
          THEN /\ exec' = [exec EXCEPT ![id] = "run"]
               /\ UNCHANGED <<resp, monitor>>
          ELSE /\ monitor' = [monitor EXCEPT ![id] = "enter"]
               /\ resp' = [resp EXCEPT ![id] = [code |-> 201, body |-> "accepted"]]
               /\ exec' = [exec EXCEPT ![id] = "done"]
    /\ UNCHANGED <<apiVars, auxVars>>
    /\ UNCHANGED <<JobsCache, proc, oldStatus, storage, last, observed, killed>>

\* The sync job's Run, called by Execution: the backend runs the container to
\* its end; the container may have written <results-dir>/<job-id>.json.
SyncRun(id, final, wrote, t) ==
    /\ exec[id] = "run"
    /\ job' = [job EXCEPT ![id] = CtxCancel(NewStatusUpdate(@, final, t))]
    /\ now' = t
    /\ storage' = IF wrote THEN storage \cup {id} ELSE storage
    /\ exec' = [exec EXCEPT ![id] = "fetch"]
    /\ UNCHANGED <<apiVars, auxVars>>
    /\ UNCHANGED <<JobsCache, proc, resp, monitor, oldStatus, provider, last, observed, killed>>

\* func FetchResults(svc, jid): an error when the storage call fails or the
\* key does not exist.
FetchResults(store, id, s3Ok) ==
    IF ~s3Ok THEN [data |-> FALSE, err |-> TRUE]
    ELSE IF id \notin store THEN [data |-> FALSE, err |-> TRUE]
    ELSE [data |-> TRUE, err |-> FALSE]

\* Execution after j.Run() returned, case "sync-execute".
SyncResponse(id, s3Ok) ==
    LET r == IF proc[id].outputs THEN FetchResults(storage, id, s3Ok)
             ELSE [data |-> FALSE, err |-> FALSE] IN
    IF r.err THEN [code |-> 500, body |-> "fetch error"]
    ELSE IF job[id].Status = SUCCESSFUL THEN [code |-> 200, body |-> "outputs"]
    ELSE [code |-> 500, body |-> "logs"]

ExecutionRespond(id, s3Ok) ==
    /\ exec[id] = "fetch"
    /\ resp' = [resp EXCEPT ![id] = SyncResponse(id, s3Ok)]
    /\ exec' = [exec EXCEPT ![id] = "done"]
    /\ UNCHANGED <<apiVars, auxVars>>
    /\ UNCHANGED <<JobsCache, job, proc, monitor, oldStatus, provider, storage, last,
                   observed, killed, now>>

\* `go j.Run()` up to its first JobMonitor call.
RunStart(id, ctrlOk, t) ==
    /\ monitor[id] = "enter"
    /\ ctrlOk \/ Len(job[id].APILogs) < MaxLog
    /\ LET r == RunEnter(job[id], ctrlOk, t) IN
       /\ job' = [job EXCEPT ![id] = r.job]
       /\ now' = IF r.returned THEN t ELSE now
       /\ monitor' = [monitor EXCEPT ![id] = IF r.returned THEN "returned" ELSE "poll"]
    /\ oldStatus' = [oldStatus EXCEPT ![id] = ""]
    /\ UNCHANGED <<apiVars, auxVars>>
    /\ UNCHANGED <<JobsCache, proc, exec, resp, provider, storage, last, observed, killed>>

\* One JobMonitor call of Run's loop and what Run does with its answer.
RunPoll(id, monOk, t) ==
    /\ monitor[id] = "poll"
    /\ monOk \/ Len(job[id].APILogs) < MaxLog
    /\ LET r == RunObserve(job[id], oldStatus[id], monOk, provider[id], t) IN
       /\ job' = [job EXCEPT ![id] = r.job]
       /\ now' = IF r.job.UpdateTime # job[id].UpdateTime THEN t ELSE now
       /\ monitor' = [monitor EXCEPT ![id] = IF r.returned THEN "returned" ELSE "sleep"]
       /\ oldStatus' = [oldStatus EXCEPT ![id] = IF monOk THEN provider[id] ELSE @]
    /\ UNCHANGED <<apiVars, auxVars>>
    /\ UNCHANGED <<JobsCache, proc, exec, resp, provider, storage, last, observed, killed>>

\* time.Sleep(10 * time.Second) at the end of a turn of Run's loop.
RunSleep(id) ==
    /\ monitor[id] = "sleep"
    /\ monitor' = [monitor EXCEPT ![id] = "poll"]
    /\ UNCHANGED <<apiVars, auxVars>>
    /\ UNCHANGED <<JobsCache, job, proc, exec, resp, oldStatus, provider, storage, last,
                   observed, killed, now>>

\* The batch provider moves a submitted job on.
ProviderAdvance(id, to) ==
    /\ \/ provider[id] = "SUBMITTED" /\ to \in {"RUNNING", "FAILED"}
       \/ provider[id] = "RUNNING" /\ to \in {"SUCCEEDED", "FAILED"}
    /\ provider' = [provider EXCEPT ![id] = to]
    /\ storage' = IF to = "SUCCEEDED" THEN storage \cup {id} ELSE storage
    /\ UNCHANGED <<apiVars, auxVars>>
    /\ UNCHANGED <<JobsCache, job, proc, exec, resp, monitor, oldStatus, last, observed,
                   killed, now>>

\* func (rh *RESTHandler) JobStatusHandler
StatusResponse(id) ==
    IF id \in JobsCache
    THEN [NoLast EXCEPT !.h = "status", !.id = id, !.code = 200, !.body = job[id].Status]
    ELSE [NoLast EXCEPT !.h = "status", !.id = id, !.code = 404, !.body = "jobID not found"]

JobStatusHandler(id) ==
    /\ last' = StatusResponse(id)
    /\ observed' = IF last'.code = 200 /\ last'.body = SUCCESSFUL
                   THEN observed \cup {id} ELSE observed
    /\ UNCHANGED <<apiVars, auxVars>>
    /\ UNCHANGED <<JobsCache, job, proc, exec, resp, monitor, oldStatus, provider, storage,
                   killed, now>>

\* func (rh *RESTHandler) JobResultsHandler
ResultsResponse(id) ==
    IF id \notin JobsCache
    THEN [NoLast EXCEPT !.h = "results", !.id = id, !.code = 404, !.body = "jobID not found"]
    ELSE IF job[id].Status = SUCCESSFUL
    THEN [NoLast EXCEPT !.h = "results", !.id = id, !.code = 200, !.body = "outputs"]
    ELSE IF job[id].Status \in {FAILED, DISMISSED}
    THEN [NoLast EXCEPT !.h = "results", !.id = id, !.code = 200, !.body = "logs"]
    ELSE [NoLast EXCEPT !.h = "results", !.id = id, !.code = 404, !.body = "results not ready"]

JobResultsHandler(id) ==
    /\ last' = ResultsResponse(id)
    /\ UNCHANGED <<apiVars, auxVars>>
    /\ UNCHANGED <<JobsCache, job, proc, exec, resp, monitor, oldStatus, provider, storage,
                   observed, killed, now>>

\* func (rh *RESTHandler) JobDismissHandler
DismissResponse(id, kills, err) ==
    IF kills = 0
    THEN [NoLast EXCEPT !.h = "dismiss", !.id = id, !.code = 410]
    ELSE IF err
    THEN [NoLast EXCEPT !.h = "dismiss", !.id = id, !.code = 500, !.kills = kills, !.err = TRUE]
    ELSE [NoLast EXCEPT !.h = "dismiss", !.id = id, !.code = 200, !.kills = kills]

JobDismissHandler(id, ctrlOk, killOk, t) ==
    LET found == {k \in JobsCache : k = id} IN
    IF found = {}
    THEN /\ last' = DismissResponse(id, 0, FALSE)
         /\ UNCHANGED <<apiVars, auxVars>>
         /\ UNCHANGED <<JobsCache, job, proc, exec, resp, monitor, oldStatus, provider,
                        storage, observed, killed, now>>
    ELSE /\ ctrlOk \/ Len(job[id].APILogs) < MaxLog
         /\ LET r == Kill(job[id], ctrlOk, killOk, t) IN
            /\ job' = [job EXCEPT ![id] = r.job]
            /\ now' = IF r.job.UpdateTime # job[id].UpdateTime THEN t ELSE now
            /\ killed' = IF r.err THEN killed ELSE killed \cup {id}
            /\ last' = DismissResponse(id, 1, r.err)
         /\ UNCHANGED <<apiVars, auxVars>>
         /\ UNCHANGED <<JobsCache, proc, exec, resp, monitor, oldStatus, provider, storage,
                        observed>>

\* ------------------------------------------------------------------------
\* AWSBatchJob, src/api/jobs/active_jobs.go

\* A job value before Create.
NoApiJob == [Status |-> NoStatus, UpdateTime |-> 0, AWSBatchID |-> "",
             apiLogs |-> <<>>, containerLogs |-> <<>>, ctxCancelled |-> FALSE,
             wgRun |-> 0, wg |-> 0]

\* The rows of a job in j.DB: the record addJob and updateJobRecord write,
\* and the number of times upsertLogs has written the job's logs.
NoRecord == [status |-> NoStatus, updated |-> 0, upserts |-> 0]

\* func (j *AWSBatchJob) NewMessage(m string)
ApiNewMessage(j, m) == [j EXCEPT !.apiLogs = Append(@, m)]

\* time.Time{}: the zero time, before every reading of the clock.
ZeroTime == 0

\* The update times a caller of NewStatusUpdate can pass.
UpdateTimes == ZeroTime..MaxTime

\* No call of NewStatusUpdate has been made.
NoLastCall == [id |-> 0, status |-> "", updateTime |-> ZeroTime]

\* NewStatusUpdate without the test of the old status.
ApiNewStatusUpdateTimeNoSwitch(j, status, updateTime, clock) ==
    [j EXCEPT !.Status = status,
              !.UpdateTime = IF updateTime = ZeroTime THEN clock ELSE updateTime]

\* func (j *AWSBatchJob) NewStatusUpdate(status string, updateTime time.Time):
\* the job's fields.  clock is what time.Now() reads.
ApiNewStatusUpdateTime(j, status, updateTime, clock) ==
    IF j.Status \in Terminal THEN j
    ELSE [j EXCEPT !.Status = status,
                   !.UpdateTime = IF updateTime = ZeroTime THEN clock ELSE updateTime]

\* NewStatusUpdate(status, time.Time{}), as Create and Kill call it.
ApiNewStatusUpdate(j, status, t) == ApiNewStatusUpdateTime(j, status, ZeroTime, t)

\* j.DB.updateJobRecord(j.UUID, status, j.UpdateTime) at the end of
\* NewStatusUpdate: not reached when the old status is terminal.
UpdateJobRecord(r, j, status, t) ==
    IF j.Status \in Terminal THEN r
    ELSE [r EXCEPT !.status = status, !.updated = t]

\* j.ctxCancel()
ApiCtxCancel(j) == [j EXCEPT !.ctxCancelled = TRUE]

\* func (j *AWSBatchJob) Create() error
\* ctrlOk, submitOk, dbOk: NewAWSBatchController, JobCreate and DB.addJob
\* returned no error.
ApiCreate(j, ctrlOk, submitOk, dbOk, t) ==
    LET c == [j EXCEPT !.ctxCancelled = FALSE] IN
    IF ~ctrlOk \/ ~submitOk THEN [job |-> ApiCtxCancel(c), err |-> TRUE, added |-> FALSE]
    ELSE LET b == [c EXCEPT !.wgRun = @ + 1, !.AWSBatchID = "batch-id"] IN
         IF ~dbOk THEN [job |-> ApiCtxCancel(b), err |-> TRUE, added |-> FALSE]
         ELSE [job |-> ApiNewStatusUpdate(b, ACCEPTED, t), err |-> FALSE, added |-> TRUE]

\* func (j *AWSBatchJob) Kill() error, up to its call of JobKill.
ApiKillEnter(j, ctrlOk) ==
    LET m == ApiNewMessage(j, "Received dismiss signal") IN
    IF m.Status \in Terminal THEN [job |-> m, err |-> TRUE]
    ELSE IF ~ctrlOk
    THEN [job |-> ApiNewMessage(m, "Could not send kill signal"), err |-> TRUE]
    ELSE [job |-> m, err |-> FALSE]

\* Kill from the return of JobKill to the deferred Close's call of
\* fetchCloudWatchLogs: NewStatusUpdate(DISMISSED), then Close cancels the
\* context.
ApiKillReturn(j, killOk, t) ==
    IF ~killOk
    THEN [job |-> ApiNewMessage(j, "Could not send kill signal"), err |-> TRUE]
    ELSE [job |-> ApiCtxCancel(ApiNewStatusUpdate(j, DISMISSED, t)), err |-> FALSE]

\* Close, from the return of fetchCloudWatchLogs to j.wg.Wait().
CloseLogs(j, logsOk) ==
    IF logsOk THEN [j EXCEPT !.containerLogs = <<"events">>]
    ELSE ApiNewMessage(j, "Could not fetch cloud watch logs")

\* j.DB.upsertLogs(j.UUID, j.ProcessID(), j.apiLogs, j.containerLogs)
UpsertLogs(r, j) == [r EXCEPT !.upserts = @ + 1]

\* j.DoneChan <- j without the send.
DoneChanSendDropped(ch, id) == ch

\* j.DoneChan <- j
DoneChanSend(ch, id) == Append(ch, id)

\* func (j *AWSBatchJob) RunFinished()
RunFinished(j) == [j EXCEPT !.wgRun = @ - 1]

\* ------------------------------------------------------------------------
\* ActiveJobs, src/api/jobs/active_jobs.go

\* func (ac *ActiveJobs) Add(j *Job), inside the lock
Add(reg, id) == reg \cup {id}

\* func (ac *ActiveJobs) Remove(j *Job), inside the lock
Remove(reg, id) == reg \ {id}

\* ------------------------------------------------------------------------
\* The goroutines of package src/api/jobs

\* The goroutines that can stand inside Kill or Close: the dismiss request,
\* the KillAll call, and the monitor of each job.
DismissThread == <<"dismiss", 0>>
KillAllThread == <<"killall", 0>>
MonitorThread(id) == <<"monitor", id>>
Threads == {DismissThread, KillAllThread} \cup {MonitorThread(id) : id \in ApiJobs}

Idle == [pc |-> "idle", job |-> 0, seen |-> ""]

\* KillAll has not returned; no Kill it called has returned an error.
NoKillAll == [ret |-> "none", errs |-> 0]

\* KillAll: `return err` on the error of a Kill.
KillAllError(k) == [ret |-> "err", errs |-> k.errs + 1]

\* The capacity of DoneChan's buffer.
DoneChanCap == 1

\* The order in which the provider's statuses follow each other.
ProviderRank(status) ==
    CASE status = "" -> 0
      [] status = "SUBMITTED" -> 1
      [] status = "RUNNING" -> 2
      [] OTHER -> 3

\* The status the monitor gives a job for a provider status.
MapStatus(status) ==
    CASE status = "SUBMITTED" -> ACCEPTED
      [] status = "RUNNING" -> RUNNING
      [] status = "SUCCEEDED" -> SUCCESSFUL
      [] status = "FAILED" -> FAILED

ApiUnchangedLegacy == UNCHANGED <<JobsCache, job, proc, exec, resp, monitor, oldStatus,
                                  provider, storage, last, observed, killed, auxVars>>

\* The orchestrator executes a process with job id: Create, and on success
\* the job enters the registry and its monitor is started.
ApiExecution(id, ctrlOk, submitOk, dbOk, t) ==
    /\ ajob[id] = NoApiJob
    /\ \A k \in ApiJobs : k < id => ajob[k] # NoApiJob
    /\ ~mu
    /\ LET r == ApiCreate(ajob[id], ctrlOk, submitOk, dbOk, t) IN
       /\ ajob' = [ajob EXCEPT ![id] = r.job]
       /\ DB' = [DB EXCEPT ![id] = IF r.added
                                   THEN [@ EXCEPT !.status = ACCEPTED, !.updated = t]
                                   ELSE @]
       /\ now' = IF r.added THEN t ELSE now
       /\ ActiveJobs' = IF r.err THEN ActiveJobs ELSE Add(ActiveJobs, id)
       /\ th' = IF r.err THEN th
                ELSE [th EXCEPT ![MonitorThread(id)] = [pc |-> "poll", job |-> id, seen |-> ""]]
    /\ UNCHANGED <<mu, DoneChan, todo, recv, killAll>>
    /\ ApiUnchangedLegacy

\* A goroutine enters Kill on job id.
EnterKill(thread, id, ctrlOk, back) ==
    /\ Len(ajob[id].apiLogs) + (IF ctrlOk THEN 1 ELSE 2) <= MaxLog
    /\ LET r == ApiKillEnter(ajob[id], ctrlOk) IN
       /\ ajob' = [ajob EXCEPT ![id] = r.job]
       /\ th' = [th EXCEPT ![thread] = IF r.err THEN [@ EXCEPT !.pc = back, !.job = 0]
                                       ELSE [@ EXCEPT !.pc = "jobkill", !.job = id]]

\* DELETE /jobs/{id}: Kill on a job Create has admitted.
DismissBegin(id, ctrlOk) ==
    /\ th[DismissThread].pc = "idle"
    /\ ajob[id].Status # NoStatus
    /\ EnterKill(DismissThread, id, ctrlOk, "idle")
    /\ UNCHANGED <<ActiveJobs, mu, DB, DoneChan, todo, recv, now, killAll>>
    /\ ApiUnchangedLegacy

\* func (ac *ActiveJobs) KillAll() error: ac.mu.Lock() and the start of the
\* range over ac.Jobs.
KillAllBegin ==
    /\ th[KillAllThread].pc = "idle"
    /\ ~mu
    /\ mu' = TRUE
    /\ todo' = ActiveJobs
    /\ th' = [th EXCEPT ![KillAllThread] = [@ EXCEPT !.pc = "range"]]
    /\ killAll' = NoKillAll
    /\ UNCHANGED <<ActiveJobs, ajob, DB, DoneChan, recv, now>>
    /\ ApiUnchangedLegacy

\* One turn of KillAll's range without the test of the job's status.
KillAllVisitNoSkip(id, ctrlOk) ==
    /\ th[KillAllThread].pc = "range"
    /\ id \in todo
    /\ todo' = todo \ {id}
    /\ Len(ajob[id].apiLogs) + (IF ctrlOk THEN 1 ELSE 2) <= MaxLog
    /\ EnterKill(KillAllThread, id, ctrlOk, "idle")
    /\ mu' = (th'[KillAllThread].pc # "idle")
    /\ killAll' = IF th'[KillAllThread].pc = "idle" THEN KillAllError(killAll)
                  ELSE killAll
    /\ UNCHANGED <<ActiveJobs, DB, DoneChan, recv, now>>
    /\ ApiUnchangedLegacy

\* One turn of KillAll's range: the job is skipped, or Kill is entered; an
\* error of Kill ends KillAll, which unlocks.
KillAllVisit(id, ctrlOk) ==
    /\ th[KillAllThread].pc = "range"
    /\ id \in todo
    /\ todo' = todo \ {id}
    /\ IF ajob[id].Status \in {ACCEPTED, RUNNING}
       THEN /\ EnterKill(KillAllThread, id, ctrlOk, "idle")
            /\ mu' = (th'[KillAllThread].pc # "idle")
            /\ killAll' = IF th'[KillAllThread].pc = "idle" THEN KillAllError(killAll)
                          ELSE killAll
       ELSE UNCHANGED <<ajob, th, mu, killAll>>
    /\ UNCHANGED <<ActiveJobs, DB, DoneChan, recv, now>>
    /\ ApiUnchangedLegacy

\* KillAll's range is over: return nil; the deferred unlock runs.
KillAllEnd ==
    /\ th[KillAllThread].pc = "range"
    /\ todo = {}
    /\ mu' = FALSE
    /\ th' = [th EXCEPT ![KillAllThread] = Idle]
    /\ killAll' = [killAll EXCEPT !.ret = "nil"]
    /\ UNCHANGED <<ActiveJobs, ajob, DB, DoneChan, todo, recv, now>>
    /\ ApiUnchangedLegacy

\* JobKill returns to Kill: on an error Kill returns it; otherwise the status
\* update, and the deferred Close up to its call of fetchCloudWatchLogs.
KillProviderReturn(thread, killOk, t) ==
    /\ th[thread].pc = "jobkill"
    /\ killOk \/ Len(ajob[th[thread].job].apiLogs) < MaxLog
    /\ LET id == th[thread].job
           r == ApiKillReturn(ajob[id], killOk, t) IN
       /\ ajob' = [ajob EXCEPT ![id] = r.job]
       /\ DB' = [DB EXCEPT ![id] = IF killOk THEN UpdateJobRecord(@, ajob[id], DISMISSED, t)
                                   ELSE @]
       /\ now' = IF killOk /\ ajob[id].Status \notin Terminal THEN t ELSE now
       /\ th' = [th EXCEPT ![thread] = IF r.err THEN Idle ELSE [@ EXCEPT !.pc = "fetchlogs"]]
       /\ mu' = IF r.err /\ thread = KillAllThread THEN FALSE ELSE mu
       /\ killAll' = IF r.err /\ thread = KillAllThread THEN KillAllError(killAll)
                     ELSE killAll
    /\ UNCHANGED <<ActiveJobs, DoneChan, todo, recv>>
    /\ ApiUnchangedLegacy

\* Close: fetchCloudWatchLogs has returned; next is j.wg.Wait().
CloseLogsFetched(thread, logsOk) ==
    /\ th[thread].pc = "fetchlogs"
    /\ logsOk \/ Len(ajob[th[thread].job].apiLogs) < MaxLog
    /\ ajob' = [ajob EXCEPT ![th[thread].job] = CloseLogs(@, logsOk)]
    /\ th' = [th EXCEPT ![thread] = [@ EXCEPT !.pc = "wait"]]
    /\ UNCHANGED <<ActiveJobs, mu, DB, DoneChan, todo, recv, now, killAll>>
    /\ ApiUnchangedLegacy

\* Close: j.wg.Wait() returns and the logs are flushed; next is the send.
CloseFlush(thread) ==
    /\ th[thread].pc = "wait"
    /\ ajob[th[thread].job].wg = 0
    /\ DB' = [DB EXCEPT ![th[thread].job] = UpsertLogs(@, ajob[th[thread].job])]
    /\ th' = [th EXCEPT ![thread] = [@ EXCEPT !.pc = "send"]]
    /\ UNCHANGED <<ActiveJobs, mu, ajob, DoneChan, todo, recv, now, killAll>>
    /\ ApiUnchangedLegacy

\* Close: the send on DoneChan goes through and Close returns: Kill returns
\* nil to its caller; the monitor releases the run-finished signal.
CloseSend(thread) ==
    /\ th[thread].pc = "send"
    /\ Len(DoneChan) < DoneChanCap
    /\ DoneChan' = DoneChanSend(DoneChan, th[thread].job)
    /\ IF thread = KillAllThread
       THEN /\ th' = [th EXCEPT ![thread] = [@ EXCEPT !.pc = "range", !.job = 0]]
            /\ UNCHANGED ajob
       ELSE IF thread = DismissThread
       THEN /\ th' = [th EXCEPT ![thread] = Idle]
            /\ UNCHANGED ajob
       ELSE /\ th' = [th EXCEPT ![thread] = [@ EXCEPT !.pc = "finished"]]
            /\ ajob' = [ajob EXCEPT ![th[thread].job] = RunFinished(@)]
    /\ UNCHANGED <<ActiveJobs, mu, DB, todo, recv, now, killAll>>
    /\ ApiUnchangedLegacy

\* The receiver of DoneChan takes a job off the channel.
DoneReceive ==
    /\ recv = 0
    /\ DoneChan # <<>>
    /\ recv' = Head(DoneChan)
    /\ DoneChan' = Tail(DoneChan)
    /\ UNCHANGED <<ActiveJobs, mu, ajob, DB, th, todo, now, killAll>>
    /\ ApiUnchangedLegacy

\* The receiver removes the job it received from the registry.
DoneRemove ==
    /\ recv # 0
    /\ ~mu
    /\ ActiveJobs' = Remove(ActiveJobs, recv)
    /\ recv' = 0
    /\ UNCHANGED <<mu, ajob, DB, DoneChan, th, todo, now, killAll>>
    /\ ApiUnchangedLegacy

\* One poll of the job's monitor: the provider's status has moved on or not;
\* a change is a NewStatusUpdate, and a terminal status starts Close.
MonitorPoll(id, status, t) ==
    LET m == MonitorThread(id) IN
    /\ th[m].pc = "poll"
    /\ ~ajob[id].ctxCancelled
    /\ ProviderRank(status) >= ProviderRank(th[m].seen)
    /\ ProviderRank(status) = 3 => th[m].seen \notin {"SUCCEEDED", "FAILED"}
    /\ IF status = th[m].seen
       THEN UNCHANGED <<ajob, DB, now, th>>
       ELSE /\ DB' = [DB EXCEPT ![id] = UpdateJobRecord(@, ajob[id], MapStatus(status), t)]
            /\ now' = IF ajob[id].Status \notin Terminal THEN t ELSE now
            /\ IF MapStatus(status) \in Terminal
               THEN /\ ajob' = [ajob EXCEPT ![id] =
                                   ApiCtxCancel(ApiNewStatusUpdate(@, MapStatus(status), t))]
                    /\ th' = [th EXCEPT ![m] = [@ EXCEPT !.pc = "fetchlogs", !.seen = status]]
               ELSE /\ ajob' = [ajob EXCEPT ![id] = ApiNewStatusUpdate(@, MapStatus(status), t)]
                    /\ th' = [th EXCEPT ![m] = [@ EXCEPT !.seen = status]]
    /\ UNCHANGED <<ActiveJobs, mu, DoneChan, todo, recv, killAll>>
    /\ ApiUnchangedLegacy

\* The monitor finds the job's context cancelled: it leaves its loop. It
\* has not updated the status to a final one, so the run-finished signal is
\* not its to release (the comment at j.wgRun.Add(1) in Create).
MonitorCancelled(id) ==
    LET m == MonitorThread(id) IN
    /\ th[m].pc = "poll"
    /\ ajob[id].ctxCancelled
    /\ th' = [th EXCEPT ![m] = [@ EXCEPT !.pc = "finished"]]
    /\ UNCHANGED <<ActiveJobs, mu, ajob, DB, DoneChan, todo, recv, now, killAll>>
    /\ ApiUnchangedLegacy

\* A call of NewStatusUpdate on job id by any caller, with any status and
\* the zero time or an explicit update time.
NewStatusUpdateCall(id, status, updateTime, clock) ==
    LET j == ApiNewStatusUpdateTime(ajob[id], status, updateTime, clock) IN
    /\ ajob' = [ajob EXCEPT ![id] = j]
    /\ DB' = [DB EXCEPT ![id] = UpdateJobRecord(@, ajob[id], status, j.UpdateTime)]
    /\ now' = IF ajob[id].Status \notin Terminal /\ updateTime = ZeroTime THEN clock ELSE now
    /\ lastCall' = [id |-> id, status |-> status, updateTime |-> updateTime]
    /\ UNCHANGED <<ActiveJobs, mu, DoneChan, th, todo, recv, killAll>>
    /\ UNCHANGED <<JobsCache, job, proc, exec, resp, monitor, oldStatus, provider,
                   storage, last, observed, killed>>
    /\ UNCHANGED <<bootVars, listVars, metaVars, cacheVars, raceVars, lookVars>>

\* ------------------------------------------------------------------------
\* WriteMetaData, src/api/jobs/active_jobs.go

\* The calls of WriteMetaData that can return an error, and "none".
MetaDataFailures == {"controller", "imageURI", "imageDigest", "jobTimes", "marshal"}

\* WriteMetaData up to the first call that can fail.
WriteMetaDataStart(j) ==
    [ApiNewMessage(j, "Starting metadata writing routine.") EXCEPT !.wg = @ + 1]

\* A metadata routine that fails the job when a call fails.
WriteMetaDataFailsJob(j, failure, t) ==
    LET e == IF failure \in MetaDataFailures
             THEN ApiNewStatusUpdate(ApiNewMessage(j, "error writing metadata"), FAILED, t)
             ELSE j IN
    [ApiNewMessage(e, "Finished metadata writing routine.") EXCEPT !.wg = @ - 1]

\* WriteMetaData from the first call that can fail to its return: the
\* message of the failing call, then the deferred calls.
WriteMetaDataReturn(j, failure, t) ==
    LET e == IF failure \in MetaDataFailures
             THEN ApiNewMessage(j, "error writing metadata")
             ELSE j IN
    [ApiNewMessage(e, "Finished metadata writing routine.") EXCEPT !.wg = @ - 1]

\* WriteMetaData is called on job id.
WriteMetaDataBegin(id) ==
    /\ ajob[id].wg < MaxMetaWriters
    /\ Len(ajob[id].apiLogs) + 3 <= MaxMetaLog
    /\ ajob' = [ajob EXCEPT ![id] = WriteMetaDataStart(@)]
    /\ UNCHANGED <<ActiveJobs, mu, DB, DoneChan, th, todo, recv, killAll, now>>
    /\ UNCHANGED <<metaData, routine>>
    /\ UNCHANGED <<JobsCache, job, proc, exec, resp, monitor, oldStatus, provider,
                   storage, last, observed, killed, bootVars, listVars, cacheVars,
                   raceVars, statusVars, lookVars>>

\* WriteMetaData on job id returns: at the given failure, or, with "none",
\* after utils.WriteToS3, whose error is not looked at.
WriteMetaDataEnd(id, failure) ==
    /\ ajob[id].wg > 0
    /\ ajob' = [ajob EXCEPT ![id] = WriteMetaDataReturn(@, failure, now)]
    /\ metaData' = IF failure \in MetaDataFailures THEN metaData ELSE metaData \cup {id}
    /\ UNCHANGED routine
    /\ UNCHANGED <<ActiveJobs, mu, DB, DoneChan, th, todo, recv, killAll, now>>
    /\ UNCHANGED <<JobsCache, job, proc, exec, resp, monitor, oldStatus, provider,
                   storage, last, observed, killed, bootVars, listVars, cacheVars,
                   raceVars, statusVars, lookVars>>

\* The frame of a step of the goroutine that runs WriteMetaData.
RoutineUnchanged ==
    /\ UNCHANGED <<ActiveJobs, mu, DB, DoneChan, th, todo, recv, killAll, now>>
    /\ UNCHANGED <<JobsCache, job, proc, exec, resp, monitor, oldStatus, provider,
                   storage, last, observed, killed, bootVars, listVars, cacheVars,
                   raceVars, statusVars, lookVars>>

\* go j.WriteMetaData() for an admitted job whose logs are not flushed yet,
\* and the routine's first statement:
\* j.NewMessage("Starting metadata writing routine.")
RoutineStart(id) ==
    /\ routine[id] = "idle"
    /\ ajob[id].Status # NoStatus
    /\ DB[id].upserts = 0
    /\ \A thread \in Threads : th[thread].job = id => th[thread].pc # "send"
    /\ Len(ajob[id].apiLogs) + 3 <= MaxLog + MaxMetaLog
    /\ ajob' = [ajob EXCEPT ![id] = ApiNewMessage(@, "Starting metadata writing routine.")]
    /\ routine' = [routine EXCEPT ![id] = "add"]
    /\ UNCHANGED metaData
    /\ RoutineUnchanged

\* j.wg.Add(1)
RoutineAdd(id) ==
    /\ routine[id] = "add"
    /\ ajob' = [ajob EXCEPT ![id].wg = @ + 1]
    /\ routine' = [routine EXCEPT ![id] = "body"]
    /\ UNCHANGED metaData
    /\ RoutineUnchanged

\* The rest of WriteMetaData, to its return: it fails at the given call or,
\* with "none", goes on to utils.WriteToS3; then the deferred calls.
RoutineReturn(id, failure) ==
    /\ routine[id] = "body"
    /\ ajob' = [ajob EXCEPT ![id] = WriteMetaDataReturn(@, failure, now)]
    /\ metaData' = IF failure \in MetaDataFailures THEN metaData ELSE metaData \cup {id}
    /\ routine' = [routine EXCEPT ![id] = "returned"]
    /\ RoutineUnchanged

\* ------------------------------------------------------------------------
\* JobsCache: Add with its eviction, and the status updates of cached jobs

\* The ids of the jobs given to the cache.
CacheJobs == 1..NCacheJobs

\* The size-in-cache estimates a job can have.
JobSizes == (MaxJobSize - 1)..MaxJobSize

\* TrimThreshold: 0.80, in hundredths.
TrimThreshold == 80

\* The margin under the threshold eviction trims to: 0.10, in hundredths.
TrimMargin == 10

\* jobs.JobsCache{MaxSizeBytes: uint64(cacheSize), CurrentSizeBytes: 0,
\* TrimThreshold: 0.80}; jc.Jobs = make(map[string]*jobs.Job)
NoCache == [Jobs |-> [id \in {} |-> [Status |-> NoStatus, UpdateTime |-> 0, Size |-> 0]],
            CurrentSizeBytes |-> 0, Evicted |-> {}]

\* An eviction that takes the oldest entries whatever their status.
EvictableAny(c) == DOMAIN c.Jobs

\* The entries eviction may remove: those in a terminal status.
Evictable(c) == {id \in DOMAIN c.Jobs : c.Jobs[id].Status \in Terminal}

\* The evictable entries with the oldest last-update.
Oldest(c) ==
    {id \in Evictable(c) :
        \A k \in Evictable(c) : c.Jobs[id].UpdateTime <= c.Jobs[k].UpdateTime}

\* remove(job-id), used only by eviction.
CacheRemove(c, id) ==
    [Jobs |-> [k \in DOMAIN c.Jobs \ {id} |-> c.Jobs[k]],
     CurrentSizeBytes |-> c.CurrentSizeBytes - c.Jobs[id].Size,
     Evicted |-> c.Evicted \cup {id}]

\* The caches eviction can leave: entries are removed oldest first until the
\* size is at most max-size x (threshold - margin) or no evictable entry is
\* left; entries of the same last-update go in any order.
RECURSIVE Trim(_)
Trim(c) ==
    IF \/ c.CurrentSizeBytes * 100 <= CacheSize * (TrimThreshold - TrimMargin)
       \/ Evictable(c) = {}
    THEN {c}
    ELSE UNION {Trim(CacheRemove(c, id)) : id \in Oldest(c)}

\* add(job): insert, update size, then run the eviction check.
JobsCacheAdd(c, id, size) ==
    LET a == [Jobs |-> [k \in DOMAIN c.Jobs \cup {id} |->
                          IF k = id
                          THEN [Status |-> NoStatus, UpdateTime |-> 0, Size |-> size]
                          ELSE c.Jobs[k]],
              CurrentSizeBytes |-> c.CurrentSizeBytes + size,
              Evicted |-> {}] IN
    IF a.CurrentSizeBytes * 100 > CacheSize * TrimThreshold THEN Trim(a) ELSE {a}

\* rh.JobsCache.Add(j) in Execution: the job is new (an id no cached job
\* has; the id of an evicted job stands for a new job) and has no status yet.
CacheInsert(id, size) ==
    /\ id \notin DOMAIN jcache.Jobs
    /\ jcache' \in JobsCacheAdd(jcache, id, size)
    /\ UNCHANGED <<legacyVars, apiVars, bootVars, listVars, metaVars, raceVars, statusVars, lookVars>>

\* j.NewStatusUpdate(s) on a cached job, time.Now() reading clock.
CacheStatusUpdate(id, status, clock) ==
    /\ id \in DOMAIN jcache.Jobs
    /\ jcache' = [jcache EXCEPT !.Jobs[id].Status = status,
                              !.Jobs[id].UpdateTime = clock]
    /\ now' = clock
    /\ UNCHANGED <<JobsCache, job, proc, exec, resp, monitor, oldStatus, provider,
                   storage, last, observed, killed>>
    /\ UNCHANGED <<apiVars, bootVars, listVars, metaVars, raceVars, statusVars, lookVars>>

\* ------------------------------------------------------------------------
\* Access to the map rh.JobsCache.Jobs, src/jobs/handlers.go.  Execution
\* inserts with rh.JobsCache.Add(j); the status, results and dismiss handlers
\* range over the map.  Each handler runs in a goroutine of its request.

\* The handlers that look a job up by ranging over rh.JobsCache.Jobs.
LookupHandlers == {"JobStatusHandler", "JobResultsHandler", "JobDismissHandler"}

\* Execution is not in rh.JobsCache.Add.
NoAdd == [pc |-> "idle", id |-> 0, size |-> 0]

\* No handler is in its range.
NoLook == [pc |-> "idle", handler |-> "", jobID |-> 0, visited |-> {}, code |-> 0]

\* The frame of a step that touches the cache and its mutex only.
LookUnchanged ==
    UNCHANGED <<legacyVars, apiVars, bootVars, listVars, metaVars, raceVars, statusVars>>

\* add(job) takes the cache mutex.
AddLock(id, size) ==
    /\ adder.pc = "idle"
    /\ id \notin DOMAIN jcache.Jobs
    /\ cmu = ""
    /\ cmu' = "Add"
    /\ adder' = [pc |-> "insert", id |-> id, size |-> size]
    /\ UNCHANGED <<jcache, look>>
    /\ LookUnchanged

\* add(job) under the mutex: insert, update the size, run the eviction check.
AddInsert ==
    /\ adder.pc = "insert"
    /\ jcache' \in JobsCacheAdd(jcache, adder.id, adder.size)
    /\ adder' = [adder EXCEPT !.pc = "unlock"]
    /\ UNCHANGED <<cmu, look>>
    /\ LookUnchanged

\* add(job) releases the cache mutex and returns to Execution.
AddUnlock ==
    /\ adder.pc = "unlock"
    /\ cmu' = ""
    /\ adder' = NoAdd
    /\ UNCHANGED <<jcache, look>>
    /\ LookUnchanged

\* jobID := c.Param("jobID"); for _, j := range rh.JobsCache.Jobs {
\* The handler takes no lock.
RangeBegin(handler, jobID) ==
    /\ look.pc = "idle"
    /\ look' = [pc |-> "range", handler |-> handler, jobID |-> jobID,
                visited |-> {}, code |-> 0]
    /\ UNCHANGED <<jcache, cmu, adder>>
    /\ LookUnchanged

\* What the handler does with the job it found: the job's new status and
\* the response code.  kill is what job.Kill() meets: "controller" (the
\* controller cannot be made), "kill" (JobKill fails) or "none".
Found(handler, status, kill) ==
    CASE handler = "JobStatusHandler" -> [status |-> status, code |-> 200]
      [] handler = "JobResultsHandler" ->
            [status |-> status,
             code |-> IF status \in {SUCCESSFUL, FAILED, DISMISSED} THEN 200 ELSE 404]
      [] OTHER ->
            CASE kill = "controller" -> [status |-> FAILED, code |-> 500]
              [] kill = "kill" -> [status |-> status, code |-> 500]
              [] OTHER -> [status |-> DISMISSED, code |-> 200]

\* One turn of the range: the next entry of the map as it is now, compared
\* with jobID; the matching job is served and the handler returns.
RangeNext(k, kill, clock) ==
    /\ look.pc = "range"
    /\ k \in DOMAIN jcache.Jobs \ look.visited
    /\ IF k = look.jobID
       THEN LET r == Found(look.handler, jcache.Jobs[k].Status, kill) IN
            /\ look' = [look EXCEPT !.pc = "idle", !.code = r.code]
            /\ jcache' = IF r.status = jcache.Jobs[k].Status THEN jcache
                         ELSE [jcache EXCEPT !.Jobs[k].Status = r.status,
                                             !.Jobs[k].UpdateTime = clock]
            /\ now' = IF r.status = jcache.Jobs[k].Status THEN now ELSE clock
       ELSE /\ look' = [look EXCEPT !.visited = @ \cup {k}]
            /\ UNCHANGED <<jcache, now>>
    /\ UNCHANGED <<cmu, adder>>
    /\ UNCHANGED <<JobsCache, job, proc, exec, resp, monitor, oldStatus, provider,
                   storage, last, observed, killed>>
    /\ UNCHANGED <<apiVars, bootVars, listVars, metaVars, raceVars, statusVars>>

\* The range is over: no job of the map has the id.
RangeEnd ==
    /\ look.pc = "range"
    /\ DOMAIN jcache.Jobs \subseteq look.visited
    /\ look' = [look EXCEPT !.pc = "idle",
                            !.code = IF look.handler = "JobDismissHandler" THEN 410 ELSE 404]
    /\ UNCHANGED <<jcache, cmu, adder>>
    /\ LookUnchanged

\* ------------------------------------------------------------------------
\* Concurrent calls of NewStatusUpdate on one job, src/api/jobs/active_jobs.go.
\* The function takes no lock: each of its reads and writes of the job's
\* fields is a step of its own.

\* The job the tasks share.
RaceJob == 1

\* The two tasks, named by the status each gives NewStatusUpdate.
RaceTasks == {RUNNING, DISMISSED}

NoCall == [pc |-> "idle"]

\* The frame of a step of a task's call: the job and its record aside.
RaceUnchanged ==
    /\ UNCHANGED <<ActiveJobs, mu, DoneChan, th, todo, recv, killAll>>
    /\ UNCHANGED <<JobsCache, job, proc, exec, resp, monitor, oldStatus, provider,
                   storage, last, observed, killed>>
    /\ UNCHANGED <<bootVars, listVars, metaVars, cacheVars, statusVars, lookVars>>

\* j.Create() on the shared job, before any of the calls.
RaceCreate(ctrlOk, submitOk, dbOk, clock) ==
    /\ ajob[RaceJob] = NoApiJob
    /\ \A task \in RaceTasks : call[task].pc = "idle"
    /\ reads = <<>>
    /\ ajob' = [ajob EXCEPT ![RaceJob] = ApiCreate(@, ctrlOk, submitOk, dbOk, clock).job]
    /\ DB' = [DB EXCEPT ![RaceJob] =
                 IF ApiCreate(ajob[RaceJob], ctrlOk, submitOk, dbOk, clock).added
                 THEN UpdateJobRecord(@, ajob[RaceJob], ACCEPTED, clock) ELSE @]
    /\ now' = IF ApiCreate(ajob[RaceJob], ctrlOk, submitOk, dbOk, clock).added
              THEN clock ELSE now
    /\ UNCHANGED <<call, reads>>
    /\ RaceUnchanged

\* The task calls j.NewStatusUpdate(task, time.Time{}).
RaceCall(task) ==
    /\ call[task].pc = "idle"
    /\ call' = [call EXCEPT ![task].pc = "switch"]
    /\ UNCHANGED <<ajob, DB, now, reads>>
    /\ RaceUnchanged

\* switch j.Status { case SUCCESSFUL, DISMISSED, FAILED: return }
RaceSwitch(task) ==
    /\ call[task].pc = "switch"
    /\ call' = [call EXCEPT ![task].pc =
                   IF ajob[RaceJob].Status \in Terminal THEN "returned" ELSE "status"]
    /\ UNCHANGED <<ajob, DB, now, reads>>
    /\ RaceUnchanged

\* j.Status = status
RaceSetStatus(task) ==
    /\ call[task].pc = "status"
    /\ ajob' = [ajob EXCEPT ![RaceJob].Status = task]
    /\ call' = [call EXCEPT ![task].pc = "time"]
    /\ UNCHANGED <<DB, now, reads>>
    /\ RaceUnchanged

\* j.UpdateTime = time.Now()
RaceSetTime(task, clock) ==
    /\ call[task].pc = "time"
    /\ ajob' = [ajob EXCEPT ![RaceJob].UpdateTime = clock]
    /\ now' = clock
    /\ call' = [call EXCEPT ![task].pc = "record"]
    /\ UNCHANGED <<DB, reads>>
    /\ RaceUnchanged

\* j.DB.updateJobRecord(j.UUID, status, j.UpdateTime)
RaceRecord(task) ==
    /\ call[task].pc = "record"
    /\ DB' = [DB EXCEPT ![RaceJob].status = task,
                        ![RaceJob].updated = ajob[RaceJob].UpdateTime]
    /\ call' = [call EXCEPT ![task].pc = "returned"]
    /\ UNCHANGED <<ajob, now, reads>>
    /\ RaceUnchanged

\* A reader task calls j.CurrentStatus().
RaceRead ==
    /\ Len(reads) < MaxReads
    /\ reads' = Append(reads, ajob[RaceJob].Status)
    /\ UNCHANGED <<ajob, DB, now, call>>
    /\ RaceUnchanged

\* ------------------------------------------------------------------------
\* Start-up, src/handlers/config.go

\* The ids of the jobs a snapshot file can hold.
SnapshotJobs == 1..NSnapshotJobs

\* jc.Jobs = make(map[string]*jobs.Job)
EmptyCache == [id \in {} |-> FAILED]

\* What a snapshot file can hold: some jobs, each in a terminal status.
SnapshotContents == UNION {[S -> Terminal] : S \in SUBSET SnapshotJobs}

\* The file .data/snapshot.gob: absent, a snapshot that decodes, or a file
\* that does not decode.
Snapshots ==
    {[kind |-> "absent", jobs |-> EmptyCache]}
        \cup {[kind |-> k, jobs |-> c] : k \in {"valid", "corrupt"}, c \in SnapshotContents}

NoLoad == [calls |-> 0, err |-> ""]

\* func (jc *JobsCache) LoadCacheFromFile() error: the error it returns and
\* the jobs it leaves in jc.Jobs.
LoadCacheFromFile(file) ==
    CASE file.kind = "absent" -> [err |-> "not found", jobs |-> EmptyCache]
      [] file.kind = "valid" -> [err |-> "", jobs |-> file.jobs]
      [] OTHER -> [err |-> "decode error", jobs |-> EmptyCache]

\* NewRESTHander's job cache with every load error taken for "not found".
SetupJobsCacheLenient(flag, file) ==
    IF ~flag
    THEN LET r == LoadCacheFromFile(file) IN
         [jc |-> r.jobs, load |-> [calls |-> 1, err |-> r.err], fatal |-> FALSE,
          log |-> IF r.err # "" THEN "Starting with clean Jobs cache."
                  ELSE "Starting from snapshot saved at .data/snapshot.gob"]
    ELSE [jc |-> EmptyCache, load |-> NoLoad, fatal |-> FALSE,
          log |-> "Starting with clean Jobs cache."]

\* NewRESTHander, "Setup Job Cache that will store all jobs": the cache, the
\* load, whether log.Fatalf ended the process, and the line logged.
SetupJobsCache(flag, file) ==
    IF ~flag
    THEN LET r == LoadCacheFromFile(file) IN
         IF r.err # ""
         THEN IF r.err = "not found"
              THEN [jc |-> r.jobs, load |-> [calls |-> 1, err |-> r.err], fatal |-> FALSE,
                    log |-> "Starting with clean Jobs cache."]
              ELSE [jc |-> r.jobs, load |-> [calls |-> 1, err |-> r.err], fatal |-> TRUE,
                    log |-> "Error loading snapshot"]
         ELSE [jc |-> r.jobs, load |-> [calls |-> 1, err |-> r.err], fatal |-> FALSE,
               log |-> "Starting from snapshot saved at .data/snapshot.gob"]
    ELSE [jc |-> EmptyCache, load |-> NoLoad, fatal |-> FALSE,
          log |-> "Starting with clean Jobs cache."]

\* func NewRESTHander(pluginsDir string, cacheSize uint64, o bool)
\*     (*RESTHandler, error)
\* It ends with the process exited by log.Fatalf, with (nil, err) from
\* LoadProcesses, or with the handler.
NewRESTHander ==
    /\ startup.pc = "new"
    /\ LET r == SetupJobsCache(o, snapshot) IN
       /\ jc' = r.jc
       /\ load' = r.load
       /\ startup' = [pc |-> IF r.fatal THEN "exited"
                             ELSE IF pluginsOk THEN "handler" ELSE "error",
                      log |-> r.log]
    /\ UNCHANGED <<o, snapshot, pluginsOk>>
    /\ UNCHANGED <<legacyVars, apiVars, listVars, metaVars, cacheVars, raceVars,
                   statusVars, lookVars>>

\* ------------------------------------------------------------------------
\* ListJobs, src/jobs/jobs.go, and its handler, src/jobs/handlers.go

\* The ids of the jobs ListJobs can find stored.
ListJobIds == 1..NListJobs

\* What ListJobs reads of a stored job: ProcessID(), LastUpdate(),
\* CurrentStatus().
StoredJobs == [ProcessName : {"echo"}, UpdateTime : 0..MaxTime,
               Status : {ACCEPTED, SUCCESSFUL}]

NoStored == [ProcessName |-> "", UpdateTime |-> 0, Status |-> NoStatus]

\* No request for the list has been answered.
NoList == [code |-> 0, body |-> <<>>]

\* The orders in which `for _, j := range ac.Jobs` can visit the jobs of S.
RangeOrders(S) ==
    {order \in [1..Cardinality(S) -> S] :
        \A i, k \in 1..Cardinality(S) : order[i] = order[k] => i = k}

\* The JobStatus ListJobs builds for a job.
JobStatus(store, id) ==
    [JobID |-> id, ProcessID |-> store[id].ProcessName,
     LastUpdate |-> store[id].UpdateTime, Status |-> store[id].Status]

\* time.Time.After
After(t, u) == t > u

\* A less function that puts the least recent first.
LessBefore(a, b) == a.LastUpdate < b.LastUpdate

\* The less function ListJobs gives sort.Slice.
Less(a, b) == After(a.LastUpdate, b.LastUpdate)

\* sort.Slice: an element goes in front of the first element it is less
\* than; the order of elements of which neither is less is that of the range.
RECURSIVE SortInsert(_, _)
SortInsert(x, sorted) ==
    IF sorted = <<>> THEN <<x>>
    ELSE IF Less(x, Head(sorted)) THEN <<x>> \o sorted
    ELSE <<Head(sorted)>> \o SortInsert(x, Tail(sorted))

RECURSIVE SortSlice(_)
SortSlice(jobs) ==
    IF jobs = <<>> THEN <<>>
    ELSE SortInsert(Head(jobs), SortSlice(Tail(jobs)))

\* func (ac *ActiveJobs) ListJobs() []JobStatus, the range visiting the jobs
\* in the given order.
ListJobs(store, order) ==
    SortSlice([i \in 1..Len(order) |-> JobStatus(store, order[i])])

\* func (rh *RESTHandler) JobsCacheHandler: GET /jobs?f=<f>
JobsCacheHandler(order, f) ==
    /\ jobsList' = IF f \in {"html", "json", ""}
                   THEN [code |-> 200, body |-> ListJobs(stored, order)]
                   ELSE [code |-> 400, body |-> <<>>]
    /\ UNCHANGED stored
    /\ UNCHANGED <<legacyVars, apiVars, bootVars, metaVars, cacheVars, raceVars,
                   statusVars, lookVars>>

\* ------------------------------------------------------------------------
\* The state after construction

\* No job has been executed.
InitJobs ==
    /\ JobsCache = {}
    /\ job = [id \in Jobs |-> NoJob]
    /\ proc = [id \in Jobs |-> NoProc]
    /\ exec = [id \in Jobs |-> "none"]
    /\ resp = [id \in Jobs |-> NoResp]
    /\ monitor = [id \in Jobs |-> "none"]
    /\ oldStatus = [id \in Jobs |-> ""]
    /\ provider = [id \in Jobs |-> ""]
    /\ storage = {}
    /\ last = NoLast
    /\ observed = {}
    /\ killed = {}
    /\ now = 0
    /\ ActiveJobs = {}
    /\ mu = FALSE
    /\ ajob = [id \in ApiJobs |-> NoApiJob]
    /\ DB = [id \in ApiJobs |-> NoRecord]
    /\ DoneChan = <<>>
    /\ th = [thread \in Threads |-> Idle]
    /\ todo = {}
    /\ recv = 0
    /\ killAll = NoKillAll
    /\ metaData = {}
    /\ routine = [id \in ApiJobs |-> "idle"]
    /\ jcache = NoCache
    /\ call = [task \in RaceTasks |-> NoCall]
    /\ reads = <<>>
    /\ lastCall = NoLastCall
    /\ cmu = ""
    /\ adder = NoAdd
    /\ look = NoLook

\* No job for ListJobs to find, no list asked for.
InitNoList ==
    /\ stored = [id \in {} |-> NoStored]
    /\ jobsList = NoList

\* The handler NewRESTHander returns when the server started with -o: it
\* holds a clean cache.
InitHandler ==
    /\ o = TRUE
    /\ snapshot \in {f \in Snapshots : f.kind = "absent"}
    /\ pluginsOk = TRUE
    /\ jc = SetupJobsCache(TRUE, snapshot).jc
    /\ load = SetupJobsCache(TRUE, snapshot).load
    /\ startup = [pc |-> "handler", log |-> SetupJobsCache(TRUE, snapshot).log]

\* The server started with -o.
Init ==
    /\ InitJobs
    /\ InitNoList
    /\ InitHandler

\* Any jobs are stored, with any last-update, when the list is asked for.
InitList ==
    /\ InitJobs
    /\ InitHandler
    /\ stored \in UNION {[S -> StoredJobs] : S \in SUBSET ListJobIds}
    /\ jobsList = NoList

\* Before NewRESTHander: any flag, any snapshot file, any plugins directory.
InitBoot ==
    /\ InitJobs
    /\ InitNoList
    /\ o \in BOOLEAN
    /\ snapshot \in Snapshots
    /\ pluginsOk \in BOOLEAN
    /\ jc = EmptyCache
    /\ load = NoLoad
    /\ startup = [pc |-> "new", log |-> ""]

\* ------------------------------------------------------------------------
\* Specification of package src/jobs

Next ==
    \/ \E id \in Jobs :
        \/ \E jobType \in {"sync-execute", "async-execute"}, outputs \in BOOLEAN :
               ExecutionBegin(id, jobType, outputs)
        \/ \E ctrlOk \in BOOLEAN, submitOk \in BOOLEAN, t \in Ticks :
               ExecutionCreate(id, ctrlOk, submitOk, t)
        \/ \E final \in {SUCCESSFUL, FAILED}, wrote \in BOOLEAN, t \in Ticks :
               SyncRun(id, final, wrote, t)
        \/ \E s3Ok \in BOOLEAN : ExecutionRespond(id, s3Ok)
        \/ \E ctrlOk \in BOOLEAN, t \in Ticks : RunStart(id, ctrlOk, t)
        \/ \E monOk \in BOOLEAN, t \in Ticks : RunPoll(id, monOk, t)
        \/ RunSleep(id)
        \/ \E to \in ProviderStatuses : ProviderAdvance(id, to)
    \/ \E id \in Ids :
        \/ JobStatusHandler(id)
        \/ JobResultsHandler(id)
        \/ \E ctrlOk \in BOOLEAN, killOk \in BOOLEAN, t \in Ticks :
               JobDismissHandler(id, ctrlOk, killOk, t)

Spec == Init /\ [][Next]_vars

\* A step of the goroutine `go j.Run()` of job id.
RunStep(id) ==
    \/ \E ctrlOk \in BOOLEAN, t \in Ticks : RunStart(id, ctrlOk, t)
    \/ \E monOk \in BOOLEAN, t \in Ticks : RunPoll(id, monOk, t)
    \/ RunSleep(id)

\* The scheduler runs every goroutine that can take a step: a Run that has
\* been started is not left standing. Nothing is assumed of the provider or
\* of the clients.
SpecLive == Spec /\ \A id \in Jobs : WF_vars(RunStep(id))

\* ------------------------------------------------------------------------
\* Specification of WriteMetaData, with calls of NewStatusUpdate by other
\* routines in between

MetaNext ==
    \/ \E id \in ApiJobs, status \in {ACCEPTED, RUNNING, SUCCESSFUL, FAILED, DISMISSED},
          clock \in Ticks :
          NewStatusUpdateCall(id, status, ZeroTime, clock)
    \/ \E id \in ApiJobs : WriteMetaDataBegin(id)
    \/ \E id \in ApiJobs, failure \in MetaDataFailures \cup {"none"} :
          WriteMetaDataEnd(id, failure)

SpecMeta == Init /\ [][MetaNext]_vars

\* ------------------------------------------------------------------------
\* Specification of Close with a goroutine running WriteMetaData: a job is
\* created and dismissed, and its metadata is written meanwhile

CloseNext ==
    \/ \E id \in ApiJobs :
        \/ \E ctrlOk \in BOOLEAN, submitOk \in BOOLEAN, dbOk \in BOOLEAN, t \in Ticks :
               ApiExecution(id, ctrlOk, submitOk, dbOk, t)
        \/ \E ctrlOk \in BOOLEAN : DismissBegin(id, ctrlOk)
        \/ RoutineStart(id)
        \/ RoutineAdd(id)
        \/ \E failure \in MetaDataFailures \cup {"none"} : RoutineReturn(id, failure)
    \/ \E killOk \in BOOLEAN, t \in Ticks : KillProviderReturn(DismissThread, killOk, t)
    \/ \E logsOk \in BOOLEAN : CloseLogsFetched(DismissThread, logsOk)
    \/ CloseFlush(DismissThread)
    \/ CloseSend(DismissThread)
    \/ DoneReceive
    \/ DoneRemove

SpecClose == Init /\ [][CloseNext]_vars

\* ------------------------------------------------------------------------
\* Specification of the Jobs cache

CacheNext ==
    \/ \E id \in CacheJobs, size \in JobSizes : CacheInsert(id, size)
    \/ \E id \in CacheJobs, status \in {ACCEPTED, RUNNING, SUCCESSFUL, FAILED, DISMISSED},
          clock \in {now, IF now < MaxTime THEN now + 1 ELSE now} :
          CacheStatusUpdate(id, status, clock)

SpecCache == Init /\ [][CacheNext]_vars

\* ------------------------------------------------------------------------
\* Specification of the accesses to rh.JobsCache.Jobs: Execution's
\* insertions and the lookups of the status, results and dismiss handlers

LookNext ==
    \/ \E id \in CacheJobs, size \in JobSizes : AddLock(id, size)
    \/ AddInsert
    \/ AddUnlock
    \/ \E handler \in LookupHandlers, jobID \in CacheJobs : RangeBegin(handler, jobID)
    \/ \E k \in CacheJobs, kill \in {"controller", "kill", "none"}, clock \in Ticks :
          RangeNext(k, kill, clock)
    \/ RangeEnd

SpecLook == Init /\ [][LookNext]_vars

\* ------------------------------------------------------------------------
\* Specification of two tasks calling NewStatusUpdate on one job

RaceNext ==
    \/ \E ctrlOk, submitOk, dbOk \in BOOLEAN, clock \in Ticks :
          RaceCreate(ctrlOk, submitOk, dbOk, clock)
    \/ \E task \in RaceTasks : RaceCall(task)
    \/ \E task \in RaceTasks : RaceSwitch(task)
    \/ \E task \in RaceTasks : RaceSetStatus(task)
    \/ \E task \in RaceTasks, clock \in Ticks : RaceSetTime(task, clock)
    \/ \E task \in RaceTasks : RaceRecord(task)
    \/ RaceRead

SpecRace == Init /\ [][RaceNext]_vars

\* ------------------------------------------------------------------------
\* Specification of GET /jobs

ListNext ==
    \E order \in RangeOrders(DOMAIN stored), f \in {"", "json", "html", "xml"} :
        JobsCacheHandler(order, f)

SpecList == InitList /\ [][ListNext]_vars

\* ------------------------------------------------------------------------
\* Specification of package src/api/jobs

ApiNext ==
    \/ \E id \in ApiJobs :
        \/ \E ctrlOk \in BOOLEAN, submitOk \in BOOLEAN, dbOk \in BOOLEAN, t \in Ticks :
               ApiExecution(id, ctrlOk, submitOk, dbOk, t)
        \/ \E ctrlOk \in BOOLEAN : DismissBegin(id, ctrlOk)
        \/ \E ctrlOk \in BOOLEAN : KillAllVisit(id, ctrlOk)
        \/ \E status \in ProviderStatuses, t \in Ticks : MonitorPoll(id, status, t)
        \/ MonitorCancelled(id)
    \/ KillAllBegin
    \/ KillAllEnd
    \/ \E thread \in Threads :
        \/ \E killOk \in BOOLEAN, t \in Ticks : KillProviderReturn(thread, killOk, t)
        \/ \E logsOk \in BOOLEAN : CloseLogsFetched(thread, logsOk)
        \/ CloseFlush(thread)
        \/ CloseSend(thread)
    \/ DoneReceive
    \/ DoneRemove

SpecApi == Init /\ [][ApiNext]_vars

\* ------------------------------------------------------------------------
\* Specification of AWSBatchJob.NewStatusUpdate, src/api/jobs/active_jobs.go:
\* any sequence of calls on fresh jobs.

StatusNext ==
    \E id \in ApiJobs, status \in {ACCEPTED, RUNNING, SUCCESSFUL, FAILED, DISMISSED},
       updateTime \in UpdateTimes, clock \in Ticks :
        NewStatusUpdateCall(id, status, updateTime, clock)

SpecStatus == Init /\ [][StatusNext]_vars

\* ------------------------------------------------------------------------
\* Specification of start-up, src/handlers/config.go

BootNext == NewRESTHander

SpecBoot == InitBoot /\ [][BootNext]_vars

\* ------------------------------------------------------------------------
\* Steps the properties speak about

\* The job is the AWSBatchJob Execution builds for an async-execute process.
IsBatch(id) == proc[id].jobType = "async-execute"

\* A step of the dismiss handler for id.
DismissStep(id) ==
    \E ctrlOk \in BOOLEAN, killOk \in BOOLEAN, t \in Ticks :
        JobDismissHandler(id, ctrlOk, killOk, t)

\* A step of Execution in which NewAWSBatchController succeeded and JobCreate
\* returned an error.
SubmitFailedStep(id) == \E t \in Ticks : ExecutionCreate(id, TRUE, FALSE, t)

\* A turn of Run's loop in which JobMonitor returned an error.
FailedObserveStep(id) == \E t \in Ticks : RunPoll(id, FALSE, t)

\* A step of the results handler for id.
ResultsStep(id) == JobResultsHandler(id)

\* ------------------------------------------------------------------------
\* Properties of package src/jobs (specification Spec)

\* C1: once a batch job's status is successful, failed or dismissed, no step
\* changes it.
C1_TerminalStatusNeverChanges ==
    [][\A id \in Jobs :
          (IsBatch(id) /\ job[id].Status \in Terminal) =>
              job'[id].Status = job[id].Status]_vars

\* C2: after Kill has returned nil for a batch job, the monitor never leaves
\* the job running or successful.
C2_KilledNeverRunningOrSuccessful ==
    \A id \in killed :
        IsBatch(id) => job[id].Status \notin {RUNNING, SUCCESSFUL}

\* C4 as claimed: when JobCreate fails in Execution, the job Execution added
\* to the cache is out of the cache again after the step that responds.
C4_SubmitFailureRolledBack ==
    [][\A id \in Jobs : SubmitFailedStep(id) => JobsCache' = JobsCache \ {id}]_vars

\* C4 as amended: when JobCreate fails in Execution, the job was not accepted
\* and is not afterwards (a batch job is failed), the handler responds 500,
\* and the job stays in the cache, which the step leaves as it was.
C4_SubmitFailureKeptFailed ==
    [][\A id \in Jobs :
          SubmitFailedStep(id) =>
              /\ job[id].Status # ACCEPTED
              /\ job'[id].Status # ACCEPTED
              /\ IsBatch(id) => job'[id].Status = FAILED
              /\ resp'[id].code = 500
              /\ id \in JobsCache'
              /\ JobsCache' = JobsCache]_vars

\* C4 witness: a batch job whose JobCreate failed: failed, answered 500, and
\* in the cache.
C4_Witness ==
    \E id \in Jobs :
        /\ IsBatch(id)
        /\ resp[id] = [code |-> 500, body |-> "submission error"]
        /\ job[id].APILogs # <<>>
        /\ job[id].APILogs[Len(job[id].APILogs)] = "submit error"
        /\ job[id].Status = FAILED
        /\ id \in JobsCache

\* C5 as claimed: a JobMonitor error leaves the job's status as it was and
\* the monitor goes on to its next tick.
C5_ObserveFailureOnlyLogged ==
    [][\A id \in Jobs :
          FailedObserveStep(id) =>
              /\ job'[id].Status = job[id].Status
              /\ monitor'[id] = "sleep"]_vars

\* C5 as amended: a JobMonitor error is appended to the api-log, moves the
\* job to failed, cancels its context, and ends the monitor, which polls no
\* more.
C5_ObserveFailureFailsJob ==
    [][\A id \in Jobs :
          FailedObserveStep(id) =>
              /\ job'[id].APILogs = Append(job[id].APILogs, "JobMonitor error")
              /\ job'[id].Status = FAILED
              /\ job'[id].CtxCancelled
              /\ monitor'[id] = "returned"]_vars

\* C5 witness: a monitor that returned on a JobMonitor error, its job failed.
C5_Witness ==
    \E id \in Jobs :
        /\ monitor[id] = "returned"
        /\ job[id].APILogs # <<>>
        /\ job[id].APILogs[Len(job[id].APILogs)] = "JobMonitor error"
        /\ job[id].Status = FAILED

\* C6: once Kill has returned nil for a job, its monitor makes no further
\* JobMonitor call.
C6_NoPollAfterKill ==
    [][\A id \in killed : monitor[id] = "poll" => monitor'[id] = "poll"]_vars

\* C7: once the status handler has returned successful for a batch job,
\* every later call of the results handler for it returns 200 with outputs.
C7_ResultsAfterSuccessful ==
    [][\A id \in observed :
          (IsBatch(id) /\ ResultsStep(id)) => last'.code = 200 /\ last'.body = "outputs"]_vars

\* C8: a sync Execution responds 200 with outputs when the job is successful
\* after Run, and with the job's logs when it is not.
C8_SyncResponse ==
    [][\A id \in Jobs :
          (exec[id] = "fetch" /\ exec'[id] = "done") =>
              IF job[id].Status = SUCCESSFUL
              THEN resp'[id] = [code |-> 200, body |-> "outputs"]
              ELSE resp'[id].body = "logs"]_vars

\* C9: the dismiss handler responds 410 and changes no job when the id is
\* not in the cache; otherwise it calls Kill once on that job, responds 200
\* exactly when Kill returned nil, and then the job is dismissed and no other
\* job has changed.
C9_DismissHandler ==
    [][\A id \in Ids :
          DismissStep(id) =>
              /\ last'.h = "dismiss" /\ last'.id = id
              /\ id \notin JobsCache =>
                     last'.code = 410 /\ last'.kills = 0 /\ job' = job
              /\ id \in JobsCache =>
                     /\ last'.kills = 1
                     /\ last'.code = 200 <=> ~last'.err
                     /\ last'.code = 200 => job'[id].Status = DISMISSED
                     /\ \A k \in Jobs \ {id} : job'[k] = job[k]]_vars

\* C9 witness: the dismiss handler answered 200 for a cached job, which is
\* dismissed.
C9_Witness ==
    /\ last.h = "dismiss"
    /\ last.code = 200
    /\ last.id \in JobsCache
    /\ job[last.id].Status = DISMISSED

\* ------------------------------------------------------------------------
\* The registry during cleanup (SpecApi)

\* A Close of job id has begun and the receiver of DoneChan has not yet
\* removed the job it hands over: a goroutine stands in Close between
\* ctxCancel and the send, or the job is in the channel, or the receiver
\* holds it.
ClosePending(id) ==
    \/ \E thread \in Threads :
          th[thread].job = id /\ th[thread].pc \in {"fetchlogs", "wait", "send"}
    \/ \E i \in 1..Len(DoneChan) : DoneChan[i] = id
    \/ recv = id

\* C3 (as stated): in every reachable state, every job in the Active registry
\* has status accepted or running, also inside Kill, KillAll and the
\* terminal cleanup.
C3_ActiveAcceptedOrRunning ==
    \A id \in ActiveJobs : ajob[id].Status \in {ACCEPTED, RUNNING}

\* C3 (amended): every job in the Active registry has status accepted or
\* running, or it has a terminal status and its cleanup is pending: the job
\* leaves the registry only after Close has sent it on DoneChan.
C3_ActiveOrClosing ==
    \A id \in ActiveJobs :
        \/ ajob[id].Status \in {ACCEPTED, RUNNING}
        \/ ajob[id].Status \in Terminal /\ ClosePending(id)

\* C3 witness: Kill has dismissed a job and stands in Close at wg.Wait();
\* the job is still in the registry.
C3_Witness ==
    \E id \in ActiveJobs :
        /\ ajob[id].Status = DISMISSED
        /\ th[DismissThread].pc = "wait"
        /\ th[DismissThread].job = id

\* ------------------------------------------------------------------------
\* Start-up (SpecBoot)

\* C10: after NewRESTHander, with -o the snapshot was never loaded and the
\* cache is empty; without -o the snapshot was loaded once, and a load that
\* reported "not found" left an empty cache, a load without error left the
\* snapshot's jobs, and a load with any other error ended the process, so
\* that no handler exists after a failed load of an existing snapshot.
C10_StartupSnapshot ==
    startup.pc # "new" =>
        /\ o => load.calls = 0 /\ jc = EmptyCache /\ startup.pc # "exited"
        /\ ~o =>
              /\ load.calls = 1
              /\ load.err = "not found" => jc = EmptyCache /\ startup.pc # "exited"
              /\ load.err = "" => jc = snapshot.jobs /\ startup.pc # "exited"
              /\ load.err \notin {"", "not found"} => startup.pc = "exited"
        /\ startup.pc = "handler" => load.err \in {"", "not found"}

\* C10 witness: without -o, a snapshot file that holds jobs did not decode,
\* and start-up ended the process.
C10_Witness ==
    /\ ~o
    /\ snapshot.kind = "corrupt"
    /\ snapshot.jobs # EmptyCache
    /\ load = [calls |-> 1, err |-> "decode error"]
    /\ startup.pc = "exited"

\* ------------------------------------------------------------------------
\* KillAll (SpecApi)

\* One turn of KillAll's range, on job id.
KillAllVisitStep(id) == \E ctrlOk \in BOOLEAN : KillAllVisit(id, ctrlOk)

\* Kill is called on job id: its first statement appends to the api-log.
KillEntered(id) == ajob'[id].apiLogs # ajob[id].apiLogs

\* C11: KillAll holds the registry lock while it visits a job of the
\* registry; it calls Kill on the visited job exactly when its status is
\* accepted or running and touches no other job; it returns the error of the
\* first Kill that fails, visits no job after that error, and returns nil
\* only when no Kill it called failed.
C11_KillAll ==
    [][/\ \A id \in ApiJobs :
             KillAllVisitStep(id) =>
                 /\ mu
                 /\ id \in ActiveJobs
                 /\ killAll.errs = 0
                 /\ KillEntered(id) <=> ajob[id].Status \in {ACCEPTED, RUNNING}
                 /\ \A k \in ApiJobs \ {id} : ajob'[k] = ajob[k]
       /\ killAll'.errs # killAll.errs =>
             \/ killAll' = NoKillAll
             \/ killAll.errs = 0 /\ killAll' = [ret |-> "err", errs |-> 1]
       /\ killAll'.ret = "err" =>
             killAll'.errs = 1 /\ th'[KillAllThread].pc = "idle" /\ ~mu'
       /\ killAll'.ret = "nil" => killAll'.errs = 0
       /\ killAll'.ret = "none" => killAll'.errs = 0]_vars

\* C11 witness: KillAll has returned the error of a Kill, and a job of the
\* registry that is accepted or running was not visited.
C11_Witness ==
    /\ killAll = [ret |-> "err", errs |-> 1]
    /\ \E id \in todo : ajob[id].Status \in {ACCEPTED, RUNNING}
    /\ \E id \in ActiveJobs \ todo : ajob[id].Status \in {ACCEPTED, RUNNING}

\* ------------------------------------------------------------------------
\* Create has succeeded for job id.
Created(id) == ajob[id].AWSBatchID # ""

\* The terminal cleanup of job id is over: the job is in a terminal status,
\* its logs are flushed, it has left the registry, and no goroutine works on
\* it any more.
CleanupOver(id) ==
    /\ Created(id)
    /\ ajob[id].Status \in Terminal
    /\ DB[id].upserts > 0
    /\ id \notin ActiveJobs
    /\ ~ClosePending(id)
    /\ \A thread \in Threads : th[thread].job = id => th[thread].pc \in {"idle", "finished"}

\* C12: for every job whose Create succeeded the run-finished signal is
\* released exactly once, after the terminal cleanup, on the monitor's path
\* and on Kill's: the counter never goes below zero, it is released only
\* when the job is terminal and its logs are flushed, and when the cleanup is
\* over it has been released, so that WaitForRunCompletion returns.
C12_RunFinishedOnceAfterCleanup ==
    \A id \in ApiJobs :
        /\ ajob[id].wgRun \in {0, 1}
        /\ Created(id) /\ ajob[id].wgRun = 0 =>
              ajob[id].Status \in Terminal /\ DB[id].upserts > 0
        /\ CleanupOver(id) => ajob[id].wgRun = 0

\* ------------------------------------------------------------------------
\* The last-update timestamp (SpecStatus)

\* C13: no call of NewStatusUpdate, with the zero time or with an explicit
\* update time, makes a job's UpdateTime smaller than it was.
C13_UpdateTimeNeverDecreases ==
    [][\A id \in ApiJobs : ajob'[id].UpdateTime >= ajob[id].UpdateTime]_vars

\* ------------------------------------------------------------------------
\* The provider id (Spec)

\* Execution has called Create for job id and JobCreate has not returned.
SubmitPending(id) == exec[id] = "create"

C15_ListOrderedByLastUpdateDescending ==
    jobsList.code = 200 =>
        /\ Len(jobsList.body) = Cardinality(DOMAIN stored)
        /\ \A id \in DOMAIN stored :
              \E i \in 1..Len(jobsList.body) :
                  jobsList.body[i] = JobStatus(stored, id)
        /\ \A i, k \in 1..Len(jobsList.body) :
              i < k => jobsList.body[i].LastUpdate >= jobsList.body[k].LastUpdate

\* Three jobs listed, two of them with the same last-update, the most recent
\* one not the first the range visits by id.
C15_Witness ==
    /\ jobsList.code = 200
    /\ Len(jobsList.body) = 3
    /\ jobsList.body[1].LastUpdate > jobsList.body[2].LastUpdate
    /\ jobsList.body[2].LastUpdate = jobsList.body[3].LastUpdate
    /\ jobsList.body[1].JobID = 3
    /\ jobsList.body[2].JobID > jobsList.body[3].JobID

\* ------------------------------------------------------------------------
\* A step of WriteMetaData on job id: its entry, or its return on any path.
WriteMetaDataStep(id) ==
    \/ WriteMetaDataBegin(id)
    \/ \E failure \in MetaDataFailures \cup {"none"} : WriteMetaDataEnd(id, failure)

\* log is old with messages appended.
Appended(old, log) == Len(log) >= Len(old) /\ SubSeq(log, 1, Len(old)) = old

\* C16: no step of WriteMetaData changes the job's status or last-update, in
\* the job or in its record; a failure inside it only appends messages to the
\* job's api-log and writes no metadata.
C16_WriteMetaDataKeepsStatus ==
    [][\A id \in ApiJobs :
          /\ WriteMetaDataStep(id) =>
                /\ ajob'[id].Status = ajob[id].Status
                /\ ajob'[id].UpdateTime = ajob[id].UpdateTime
                /\ DB' = DB
                /\ Appended(ajob[id].apiLogs, ajob'[id].apiLogs)
          /\ (\E failure \in MetaDataFailures : WriteMetaDataEnd(id, failure)) =>
                /\ ajob'[id] = [ajob[id] EXCEPT !.apiLogs = ajob'[id].apiLogs,
                                                !.wg = ajob'[id].wg]
                /\ Len(ajob'[id].apiLogs) > Len(ajob[id].apiLogs)
                /\ metaData' = metaData]_vars

\* A running job whose metadata write has failed and returned.
C16_Witness ==
    \E id \in ApiJobs :
        /\ ajob[id].Status = RUNNING
        /\ ajob[id].wg = 0
        /\ ajob[id].apiLogs = <<"Starting metadata writing routine.",
                                "error writing metadata",
                                "Finished metadata writing routine.">>
        /\ id \notin metaData

\* ------------------------------------------------------------------------
\* C17: whatever is inserted into the Jobs cache and whatever eviction that
\* triggers, every job that leaves the cache was in status successful, failed
\* or dismissed; a job in status accepted or running stays.
C17_NoEvictionOfNonTerminal ==
    [][\A id \in DOMAIN jcache.Jobs :
          id \notin DOMAIN jcache'.Jobs => jcache.Jobs[id].Status \in Terminal]_vars

\* The last Add evicted a job and stopped with the cache still over the size
\* eviction trims to, because accepted and running jobs fill it.
C17_Witness ==
    /\ jcache.Evicted # {}
    /\ jcache.CurrentSizeBytes * 100 > CacheSize * (TrimThreshold - TrimMargin)
    /\ \E id \in DOMAIN jcache.Jobs : jcache.Jobs[id].Status = ACCEPTED
    /\ \E id \in DOMAIN jcache.Jobs : jcache.Jobs[id].Status = RUNNING

\* ------------------------------------------------------------------------
\* C18: NewStatusUpdate(running) and NewStatusUpdate(dismissed), called
\* concurrently by two tasks on a fresh job, are serialized: once both have
\* returned the status is dismissed, in the job and in its record, and no
\* reader reads running after it has read dismissed.
C18_StatusUpdatesSerialized ==
    /\ (\A task \in RaceTasks : call[task].pc = "returned") =>
          /\ ajob[RaceJob].Status = DISMISSED
          /\ DB[RaceJob].status = DISMISSED
    /\ \A i, k \in 1..Len(reads) :
          i < k /\ reads[i] = DISMISSED => reads[k] # RUNNING

\* ------------------------------------------------------------------------
\* Job id is on DoneChan, or the receiver holds it, or it has left the
\* registry.
HandedOff(id) ==
    \/ \E i \in 1..Len(DoneChan) : DoneChan[i] = id
    \/ recv = id
    \/ Created(id) /\ id \notin ActiveJobs

\* The steps of the terminal cleanup of job id are taken in order: the logs
\* are flushed by a goroutine whose final log pull has returned, when the job
\* is terminal and no metadata routine runs; the job is handed over on
\* DoneChan with its logs flushed; it leaves the registry handed over; the
\* run-finished signal is released after the hand-off.
CleanupInOrder(id) ==
    /\ DB'[id].upserts > DB[id].upserts =>
          /\ \E thread \in Threads : th[thread].job = id /\ th[thread].pc = "wait"
          /\ ajob[id].Status \in Terminal
          /\ ajob[id].wg = 0
    /\ Len(DoneChan') > Len(DoneChan) /\ DoneChan'[Len(DoneChan')] = id =>
          DB[id].upserts > 0
    /\ id \in ActiveJobs /\ id \notin ActiveJobs' => recv = id
    /\ ajob'[id].wgRun < ajob[id].wgRun => HandedOff(id)'

\* C19: for every job that enters a terminal status the terminal cleanup
\* takes its steps in order (final log pull, metadata write finished, flush
\* of the logs, hand-off on DoneChan and removal from the registry, release
\* of the completion signal), and it takes them all: when the cleanup is over
\* the signal has been released.
C19_TerminalCleanupOrder ==
    /\ [][\A id \in ApiJobs : CleanupInOrder(id)]_vars
    /\ [](\A id \in ApiJobs :
            CleanupOver(id) => ajob[id].wgRun = 0 /\ HandedOff(id))

\* ------------------------------------------------------------------------
\* KillAll holds the registry's lock and stands in the send of Close, the
\* buffer of DoneChan is full, and the receiver holds a job it cannot remove
\* before the lock is free: none of the three can ever move again.
KillAllBlocked ==
    /\ mu
    /\ th[KillAllThread].pc = "send"
    /\ Len(DoneChan) >= DoneChanCap
    /\ recv # 0

\* C20: KillAll cannot deadlock: while it holds the registry's lock no step
\* of Kill, the send on DoneChan in Close included, waits for something that
\* needs that lock, so KillAll is never blocked for good and returns.
C20_KillAllCannotDeadlock == ~KillAllBlocked

\* ------------------------------------------------------------------------
\* The goroutine `go j.Run()` of job id runs.
MonitorRunning(id) == monitor[id] \in {"enter", "poll", "sleep"}

\* The provider has reached a status that ends Run's loop.
ProviderTerminal(id) == provider[id] \in {"SUCCEEDED", "FAILED"}

\* C21: the monitor of every async job exits once the provider has reported
\* a terminal status or the job's cancellation token has fired: after a Kill
\* that returned nil the monitor does not run forever.
C21_MonitorExits ==
    \A id \in Jobs :
        (MonitorRunning(id) /\ (ProviderTerminal(id) \/ id \in killed))
            ~> (monitor[id] = "returned")

\* ------------------------------------------------------------------------
\* C22: NewStatusUpdate on a job whose status is successful, failed or
\* dismissed changes nothing: the job's status and last-update and its
\* persisted record stay as they are, whatever the status and the update
\* time it is called with.
C22_TerminalStatusUpdateNoOp ==
    [][\A id \in ApiJobs :
          ajob[id].Status \in Terminal =>
              /\ ajob'[id] = ajob[id]
              /\ DB'[id] = DB[id]]_vars

\* NewStatusUpdate was last called on a terminal job, with another status
\* and an explicit update time later than the job's.
C22_Witness ==
    /\ lastCall.id \in ApiJobs
    /\ ajob[lastCall.id].Status \in Terminal
    /\ lastCall.status \notin {ajob[lastCall.id].Status}
    /\ lastCall.updateTime > ajob[lastCall.id].UpdateTime
    /\ DB[lastCall.id].status = ajob[lastCall.id].Status

\* ------------------------------------------------------------------------
\* C23: every read and write of the map rh.JobsCache.Jobs is made with the
\* cache mutex held: no handler is in its range over the map without the
\* mutex, and none is in it while an insertion or an eviction is under way.
Ranging == look.pc = "range"

Inserting == adder.pc \in {"insert", "unlock"}

C23_CacheAccessUnderMutex ==
    /\ Inserting => cmu = "Add"
    /\ Ranging => cmu = look.handler
    /\ ~(Ranging /\ Inserting)

\* ------------------------------------------------------------------------
\* C24: the terminal cleanup runs at most once for a job: whatever the
\* interleaving of Kill with the monitor's terminal transition or with
\* another Kill, at most one routine is ever in Close for the job and the
\* job's logs are flushed at most once.
InClose(thread, id) ==
    th[thread].job = id /\ th[thread].pc \in {"fetchlogs", "wait", "send"}

C24_CleanupAtMostOnce ==
    \A id \in ApiJobs :
        /\ DB[id].upserts <= 1
        /\ \A t1, t2 \in Threads : InClose(t1, id) /\ InClose(t2, id) => t1 = t2

\* ------------------------------------------------------------------------
\* C25: when Close flushes a job's logs with upsertLogs, no WriteMetaData
\* routine started for the job is still running, so every message of the
\* routine is in the api-log that is flushed; and the job is sent on
\* DoneChan only with its logs flushed.
RoutineRunning(id) == routine[id] \in {"add", "body"}

C25_FlushAfterMetaData ==
    [][\A id \in ApiJobs :
          /\ DB'[id].upserts > DB[id].upserts => ~RoutineRunning(id)
          /\ Len(DoneChan') > Len(DoneChan) /\ DoneChan'[Len(DoneChan')] = id =>
                 DB[id].upserts > 0]_vars

\* ------------------------------------------------------------------------
\* C26: a Kill that returns an error leaves the job as it was: its status
\* and last-update are those before the call, the call has not fired the
\* cancellation token and it has run no terminal cleanup.
KillReturnsError(id) ==
    \E ctrlOk \in BOOLEAN, killOk \in BOOLEAN, t \in Ticks :
        /\ id \in JobsCache
        /\ JobDismissHandler(id, ctrlOk, killOk, t)
        /\ Kill(job[id], ctrlOk, killOk, t).err

C26_FailedKillChangesNothing ==
    [][\A id \in Jobs :
          KillReturnsError(id) =>
              /\ job'[id].Status = job[id].Status
              /\ job'[id].UpdateTime = job[id].UpdateTime
              /\ job'[id].CtxCancelled = job[id].CtxCancelled]_vars

\* ------------------------------------------------------------------------
\* C27: when Create returns an error (the controller cannot be made, the
\* submit fails, or the job's record cannot be inserted), the job's status
\* is not accepted, its cancellation token is fired and its run-finished
\* counter is zero, so that WaitForRunCompletion does not block.
CreateReturnsError(id) ==
    \E ctrlOk \in BOOLEAN, submitOk \in BOOLEAN, dbOk \in BOOLEAN, t \in Ticks :
        /\ ApiExecution(id, ctrlOk, submitOk, dbOk, t)
        /\ ApiCreate(ajob[id], ctrlOk, submitOk, dbOk, t).err

C27_FailedCreateReleasesAll ==
    [][\A id \in ApiJobs :
          CreateReturnsError(id) =>
              /\ ajob'[id].Status # ACCEPTED
              /\ ajob'[id].ctxCancelled
              /\ ajob'[id].wgRun = 0]_vars

====
